---- MODULE Spec2Model ----
(***************************************************************************)
(* The client side of ctraffic (cmd/ctraffic/main.go): clientMain and      *)
(* udpClientMain start nconn workers (client / udpClient) that claim slots *)
(* of the table cData through the cursor nConn, connect, run the           *)
(* rate-limited echo loop and update the shared statistics; the main       *)
(* goroutine joins them and prints the report.                             *)
(*                                                                         *)
(* Time is counted in ticks of 500 ms.  A step that does not block takes   *)
(* no time; a blocked goroutine (dial, sleep, limiter wait, read) has a    *)
(* wake-up time and the clock does not pass it.                            *)
(*                                                                         *)
(* Spec and SpecSrc are the runs of the workers and the main goroutine     *)
(* (SpecSrc with a source-address file), SpecSig adds the operator's       *)
(* signal, SpecSmp the sampler goroutine started by newStats, and SpecAna  *)
(* is the run with -stat_file: the report is written as JSON, read back by *)
(* readStats and analyzed by analyzeConnections.  SpecLong is a run of     *)
(* 11 s of one worker whose connections fail, SpecLim is one rate limiter  *)
(* with its packet size and rate drawn from small sets, and SpecMon is the *)
(* run of one worker with the monitor goroutine of -monitor.               *)
(***************************************************************************)
EXTENDS Integers, Sequences, FiniteSets, TLC

VARIABLES
  cfg,          \* the flags
  now,          \* the clock, in ticks since s.Started
  interrupted,  \* a signal has arrived
  nConn,        \* the slot cursor
  cData,        \* the slot table
  wk,           \* the workers: position and locals
  s,            \* the statistics
  out,          \* the reports written to standard output
  proc,         \* "running", or how the process ended
  fatalMsg,     \* the message of log.Fatal
  mainPc,       \* the position of clientMain / udpClientMain
  oob,          \* history: the table was indexed out of range
  raced,        \* history: copyStats read a slot its worker still writes
  claimed,      \* history: the indices issued by the cursor, in order
  smp,          \* the sampler goroutine: position and locals
  dialErrs,     \* history: the dial attempts that returned an error
  an,           \* the run with -stat_file: analyzeMain and its input
  lim,          \* one rate limiter on its own: newLimiter and its use by Run
  mon           \* the monitor goroutine: position and locals

vars == <<cfg, now, interrupted, nConn, cData, wk, s, out, proc, fatalMsg,
          mainPc, oob, raced, claimed, smp, dialErrs, an, lim, mon>>

----------------------------------------------------------------------------
(* Bounds of the model *)

MaxNconn == 2
MaxRetries == 2
MaxLines == 2
MaxSlots == 2
Timeout == 5
PSize == 1
Refill == 1

(* Program constants, in ticks of 500 ms *)

TwoSeconds == 4
OneSecond == 2
DialTimeout == 3
ReadDeadline == 2
BackoffStart == 100
BackoffCap == 1000
Burst == 10
SampleMargin == 3
MonitorMargin == 3

----------------------------------------------------------------------------
(* Configuration: the flags the client reads *)

NoFile == 0 - 1

AllConfigs ==
  [mode : {"tcp", "udp"}, nconn : 1..MaxNconn, retries : 1..MaxRetries,
   reconnect : BOOLEAN, stats : {"none", "summary", "all"},
   srcfile : {NoFile} \cup (0..MaxLines), timeout : 1..Timeout]

(* len(cData) as allocated by clientMain and udpClientMain *)
TableCap(c) == IF c.mode = "tcp" THEN c.nconn * c.retries ELSE c.nconn

(* the runs of Spec: the longest timeout, a table of at most MaxSlots
   slots, no source addresses; UDP reads neither retries nor reconnect;
   several workers run with the full report *)
Configs ==
  {c \in AllConfigs :
     /\ c.timeout = Timeout
     /\ TableCap(c) <= MaxSlots
     /\ c.srcfile = NoFile
     /\ c.mode = "udp" => c.retries = 1 /\ c.reconnect
     /\ c.nconn > 1 => c.stats = "all"}

(* the runs of SpecSrc: the same with a source-address file *)
SrcConfigs ==
  {c \in AllConfigs :
     /\ c.timeout = Timeout
     /\ TableCap(c) <= MaxSlots
     /\ c.srcfile # NoFile
     /\ c.mode = "udp" => c.retries = 1 /\ c.reconnect
     /\ c.nconn > 1 => c.stats = "all"}

(* the runs of SpecLong: one TCP worker and a run of 11 s, long enough for
   more than ten dial attempts on a slot *)
LongTimeout == 22

LongConfigs ==
  [mode : {"tcp"}, nconn : {1}, retries : 1..MaxRetries,
   reconnect : BOOLEAN, stats : {"none", "all"}, srcfile : {NoFile},
   timeout : {LongTimeout}]

(* the runs of SpecSmp: one worker and the sampler, in a run of 1.5 s (no
   sampling round), of 2.5 s (one round) and of 3 s (two rounds) *)
SmpTimeout == 6

SmpConfigs ==
  {c \in [mode : {"tcp", "udp"}, nconn : {1}, retries : 1..MaxRetries,
          reconnect : BOOLEAN, stats : {"none", "summary", "all"},
          srcfile : {NoFile}, timeout : {SampleMargin, Timeout, SmpTimeout}] :
     /\ TableCap(c) <= MaxSlots
     /\ c.mode = "udp" => c.retries = 1 /\ c.reconnect}

Workers == 1..cfg.nconn

LenCData == TableCap(cfg)

Unset == 0 - 1

(* The clock stops here: past every wake-up time a run can set *)
MaxTime == cfg.timeout + ReadDeadline + 2

(* An address is a host and a port; NoPort: the text has no port.  NilAddr
   stands for the empty string and for a nil net.Addr. *)
NoPort == 0 - 1

NilAddr == [ip |-> 0, port |-> NoPort]

(* readAddresses: line i of the file; every other line carries a port *)
Addresses(k) ==
  [i \in 1..k |-> [ip |-> i, port |-> IF i % 2 = 0 THEN 7000 ELSE NoPort]]

(* GetIPStringIdx with the cursor wrapped around the pool *)
GetIPStringIdxWrapped(addresses, cursor) ==
  IF Len(addresses) = 0 THEN NilAddr
  ELSE addresses[(cursor % Len(addresses)) + 1]

(* addrPool.GetIPStringIdx *)
GetIPStringIdx(addresses, cursor) ==
  IF cursor < Len(addresses) THEN addresses[cursor + 1] ELSE NilAddr

(* withPort: add port ":0" if needed *)
withPort(adr) == IF adr.port = NoPort THEN [adr EXCEPT !.port = 0] ELSE adr

ZeroConn ==
  [started |-> Unset, connected |-> Unset, ended |-> Unset, err |-> "",
   sent |-> 0, received |-> 0, dropped |-> 0, localAddr |-> NilAddr,
   owner |-> 0]

(* newStats *)
NewStats(c) ==
  [Started |-> 0, Duration |-> c.timeout, FailedConnections |-> 0, Sent |-> 0,
   Received |-> 0, Dropped |-> 0, FailedConnects |-> 0, ConnStats |-> <<>>,
   Samples |-> <<>>]

(* the program runs as a client: analyzeMain is not called *)
NoAnalyzer == [pc |-> "off"]

(* the limiters of the run are part of the workers *)
NoLimiter == [pc |-> "off"]

(* a line of the monitor on standard error *)
NoLine ==
  [act |-> 0, fail |-> 0, connecting |-> 0, sent |-> 0, rec |-> 0,
   dropped |-> 0]

(* monitor(s) as started with -monitor: the deadline is computed once,
   1.5 s before the end, and a round begins with a sleep of 1 s;
   monConns: the slots the round looks at; lines: the lines printed *)
MonitorDeadline(c) == c.timeout - MonitorMargin

MonitorRound(m, t, deadline) ==
  IF t < deadline
    THEN [m EXCEPT !.pc = "sleep", !.wake = t + OneSecond]
    ELSE [m EXCEPT !.pc = "done", !.wake = 0]

NewMonitor(c) ==
  MonitorRound([pc |-> "new", wake |-> 0, monConns |-> 0, lines |-> 0,
                line |-> NoLine], 0, MonitorDeadline(c))

(* the run without -monitor *)
NoMonitor ==
  [pc |-> "off", wake |-> 0, monConns |-> 0, lines |-> 0, line |-> NoLine]

(* s.sample() as started by newStats: the deadline is computed once, and
   the first round sleeps if the run is longer than 1.5 s *)
SampleDeadline(c) == c.timeout - SampleMargin

(* the loop that runs until the end of the test *)
SamplerRoundNoMargin(t, deadline) ==
  IF t < deadline + SampleMargin
    THEN [pc |-> "sleep", wake |-> t + OneSecond, sent |-> 0, received |-> 0]
    ELSE [pc |-> "done", wake |-> 0, sent |-> 0, received |-> 0]

SamplerRound(t, deadline) ==
  IF t < deadline
    THEN [pc |-> "sleep", wake |-> t + OneSecond, sent |-> 0, received |-> 0]
    ELSE [pc |-> "done", wake |-> 0, sent |-> 0, received |-> 0]

NewSampler(c) == SamplerRound(0, SampleDeadline(c))

(* the sampler left out of the run: it writes s.Samples and nothing else *)
NoSampler == [pc |-> "off", wake |-> 0, sent |-> 0, received |-> 0]

(* delay: how long the last read took; drops: the packets the drain loop
   counted after the last send; attempt: the calls of Connect for the
   slot that have returned an error *)
NewWorker ==
  [pc |-> "check", id |-> Unset, backoff |-> 0, wake |-> 0, tokens |-> 0,
   last |-> 0, err |-> "", delay |-> 0, drops |-> 0, attempt |-> 0]

InitWith(configs, sampler) ==
  /\ cfg \in configs
  /\ now = 0
  /\ interrupted = FALSE
  /\ nConn = 0
  /\ cData = [i \in 0..(TableCap(cfg) - 1) |-> ZeroConn]
  /\ wk = [w \in 1..cfg.nconn |-> NewWorker]
  /\ s = NewStats(cfg)
  /\ out = <<>>
  /\ proc = "running"
  /\ fatalMsg = ""
  /\ mainPc = "wait"
  /\ oob = FALSE
  /\ raced = FALSE
  /\ claimed = <<>>
  /\ smp = IF sampler THEN NewSampler(cfg) ELSE NoSampler
  /\ dialErrs = 0
  /\ an = NoAnalyzer
  /\ lim = NoLimiter
  /\ mon = NoMonitor

Init == InitWith(Configs, FALSE)

InitSrc == InitWith(SrcConfigs, FALSE)

InitSmp == InitWith(SmpConfigs, TRUE)

InitLong == InitWith(LongConfigs, FALSE)

(* the runs of SpecMon: one worker and the monitor *)
InitMon ==
  /\ cfg \in {c \in Configs : c.nconn = 1}
  /\ now = 0
  /\ interrupted = FALSE
  /\ nConn = 0
  /\ cData = [i \in 0..(TableCap(cfg) - 1) |-> ZeroConn]
  /\ wk = [w \in 1..cfg.nconn |-> NewWorker]
  /\ s = NewStats(cfg)
  /\ out = <<>>
  /\ proc = "running"
  /\ fatalMsg = ""
  /\ mainPc = "wait"
  /\ oob = FALSE
  /\ raced = FALSE
  /\ claimed = <<>>
  /\ smp = NoSampler
  /\ dialErrs = 0
  /\ an = NoAnalyzer
  /\ lim = NoLimiter
  /\ mon = NewMonitor(cfg)

----------------------------------------------------------------------------
(* The context: deadline start + timeout, cancelled by a signal (TCP) *)

Deadline == cfg.timeout

CtxErr == interrupted \/ now >= Deadline

----------------------------------------------------------------------------
(* Token bucket (golang.org/x/time/rate as used by newLimiter and Run) *)

Min(a, b) == IF a < b THEN a ELSE b

(* tokens at time t of a bucket that held tok at time last *)
Advance(tok, last, t) == Min(Burst * PSize, tok + (t - last) * Refill)

(* for lim.AllowN(time.Now(), psize) {} : whole packets are taken away *)
RECURSIVE DrainBucket(_)
DrainBucket(tok) == IF tok >= PSize THEN DrainBucket(tok - PSize) ELSE tok

(* ticks until need more tokens have arrived *)
WaitTicks(need) == (need + Refill - 1) \div Refill

----------------------------------------------------------------------------
(* Conditions of the worker loop *)

StopMargin(mode) == IF mode = "tcp" THEN TwoSeconds ELSE OneSecond

(* the test of an expired deadline alone *)
NearDeadlineExpired(margin) == Deadline - now <= 0

(* time.Until(deadline) < margin *)
NearDeadline(margin) == Deadline - now < margin

(* the guard with > for >= *)
TooManyReconnectsOffByOne(id, len) == id > len

(* int(id) >= len(cData) *)
TooManyReconnects(id, len) == id >= len

(* the increment without the cap *)
NextBackoffUncapped(b) == b + 100

(* if backoff < time.Second { backoff += 100 * time.Millisecond } *)
NextBackoff(b) == IF b < BackoffCap THEN b + 100 ELSE b

(* time.Sleep(backoff) in ticks: the sleep ends at the first tick after it *)
SleepTicks(b) == (b + 499) \div 500

(* s.Started.Add(s.Duration) *)
NominalEnd == s.Started + s.Duration

Running == proc = "running"

SetWk(w, r) == wk' = [wk EXCEPT ![w] = r]

(* the goroutine has returned (defer wg.Done()): its locals are gone *)
Returned == [NewWorker EXCEPT !.pc = "done"]

(* Run returns err ("" for nil) to the worker in state r: the limiter and
   the connection are dropped, the slot is kept *)
RunReturns(r, err) ==
  [NewWorker EXCEPT !.pc = IF err = "" THEN "ranOk" ELSE "ranErr",
                    !.id = r.id, !.err = err]

----------------------------------------------------------------------------
(* Statistics: copyStats and reportStats *)

(* a zero time.Time minus the start saturates at the minimum Duration *)
MinDuration == 0 - 2147483647

SubStart(t, st) == IF t = Unset THEN MinDuration ELSE t - st.Started

ZeroConnStats ==
  [Started |-> 0, Connect |-> 0, Ended |-> 0, Err |-> "", Sent |-> 0,
   Received |-> 0, Dropped |-> 0, Local |-> NilAddr]

ConnStatsOf(cd, st) ==
  [Started |-> SubStart(cd.started, st), Ended |-> SubStart(cd.ended, st),
   Connect |-> IF cd.connected # Unset THEN cd.connected - st.Started ELSE 0,
   Err |-> cd.err, Sent |-> cd.sent, Received |-> cd.received,
   Dropped |-> cd.dropped, Local |-> cd.localAddr]

(* the slots copyStats reads: i < len(cData) && i < len(s.ConnStats) *)
CopiedSlots == {i \in 0..(nConn - 1) : i < LenCData}

CopyStats(st) ==
  IF cfg.stats = "all"
    THEN [st EXCEPT !.ConnStats =
            [i \in 1..nConn |->
               IF (i - 1) \in CopiedSlots /\ (i - 1) \in DOMAIN cData
                 THEN ConnStatsOf(cData[i - 1], st)
                 ELSE ZeroConnStats]]
    ELSE [st EXCEPT !.Samples = <<>>]

(* reportStats: s.Duration = time.Since(s.Started), then the encoding *)
ReportStats(st) == [st EXCEPT !.Duration = now - st.Started]

----------------------------------------------------------------------------
(* client and udpClient: one loop iteration *)

Same == <<cfg, an, lim, mon, smp, now, interrupted, nConn, out, proc, fatalMsg, mainPc,
          oob, raced, claimed>>

SameAll == <<Same, dialErrs>>

(* the claim with a load and a store for the atomic add: the load may
   see the cursor as it was before another worker's store *)
ClaimNotAtomic(w) ==
  /\ Running /\ wk[w].pc = "check"
  /\ IF NearDeadline(StopMargin(cfg.mode))
       THEN /\ SetWk(w, Returned)
            /\ UNCHANGED <<nConn, claimed>>
       ELSE \E id \in {nConn, IF nConn > 0 THEN nConn - 1 ELSE nConn} :
              /\ nConn' = id + 1
              /\ claimed' = Append(claimed, id)
              /\ SetWk(w, [wk[w] EXCEPT !.pc = "setup", !.id = id])
  /\ UNCHANGED <<cfg, an, lim, mon, smp, dialErrs, now, interrupted, cData, s, out, proc, fatalMsg, mainPc,
                 oob, raced>>

(* Check that we have > 2sec (UDP: 1sec) until deadline, then
   id := atomic.AddUint32(&nConn, 1) - 1 *)
Claim(w) ==
  /\ Running /\ wk[w].pc = "check"
  /\ IF NearDeadline(StopMargin(cfg.mode))
       THEN /\ SetWk(w, Returned)
            /\ UNCHANGED <<nConn, claimed>>
       ELSE /\ nConn' = nConn + 1
            /\ claimed' = Append(claimed, nConn)
            /\ SetWk(w, [wk[w] EXCEPT !.pc = "setup", !.id = nConn])
  /\ UNCHANGED <<cfg, an, lim, mon, smp, dialErrs, now, interrupted, cData, s, out, proc, fatalMsg, mainPc,
                 oob, raced>>

(* the guard on the index, the slot's first fields and its source address;
   TCP then dials, UDP is connected at once *)
Setup(w) ==
  LET id == wk[w].id
      a == GetIPStringIdx(Addresses(cfg.srcfile), id)
  IN
  /\ Running /\ wk[w].pc = "setup"
  /\ IF TooManyReconnects(id, LenCData)
       THEN /\ SetWk(w, [wk[w] EXCEPT !.pc = "printStats"])
            /\ UNCHANGED <<cData, proc, fatalMsg, oob>>
     ELSE IF id \notin DOMAIN cData
       THEN (* index out of range: the runtime panics *)
            /\ oob' = TRUE
            /\ proc' = "panic"
            /\ UNCHANGED <<cData, wk, fatalMsg>>
     ELSE IF cfg.srcfile # NoFile /\ a = NilAddr
       THEN /\ cData' = [cData EXCEPT ![id] =
                           [@ EXCEPT !.started = now, !.owner = w]]
            /\ proc' = "fatal"
            /\ fatalMsg' = "Ran out of source addresses"
            /\ UNCHANGED <<wk, oob>>
     ELSE /\ cData' = [cData EXCEPT ![id] =
                         [@ EXCEPT !.started = now, !.owner = w,
                                   !.localAddr = IF cfg.srcfile # NoFile
                                                   THEN withPort(a)
                                                   ELSE NilAddr,
                                   !.connected = IF cfg.mode = "udp"
                                                   THEN now ELSE Unset]]
          /\ SetWk(w, IF cfg.mode = "tcp"
                        THEN [wk[w] EXCEPT !.pc = "dialing",
                                           !.backoff = BackoffStart,
                                           !.wake = now + DialTimeout]
                        ELSE [wk[w] EXCEPT !.pc = "newLimiter"])
          /\ UNCHANGED <<proc, fatalMsg, oob>>
  /\ UNCHANGED <<cfg, an, lim, mon, smp, dialErrs, now, interrupted, nConn, s, out, mainPc, raced, claimed>>

(* echoConn.Connect returns nil: cd.connected = time.Now() *)
DialOk(w) ==
  /\ Running /\ wk[w].pc = "dialing"
  /\ ~CtxErr /\ now <= wk[w].wake
  /\ cData' = [cData EXCEPT ![wk[w].id].connected = now]
  /\ SetWk(w, [wk[w] EXCEPT !.pc = "newLimiter"])
  /\ UNCHANGED s /\ UNCHANGED SameAll

(* echoConn.Connect returns an error: time.Sleep(backoff) begins *)
DialFail(w) ==
  /\ Running /\ wk[w].pc = "dialing"
  /\ SetWk(w, [wk[w] EXCEPT !.pc = "sleeping", !.attempt = @ + 1,
                            !.wake = now + SleepTicks(wk[w].backoff)])
  /\ dialErrs' = dialErrs + 1
  /\ UNCHANGED <<cData, s>> /\ UNCHANGED Same

(* after the sleep: give up on interrupt or timeout, or dial again *)
Retry(w) ==
  LET id == wk[w].id IN
  /\ Running /\ wk[w].pc = "sleeping" /\ now >= wk[w].wake
  /\ IF CtxErr
       THEN /\ cData' = [cData EXCEPT ![id].ended = NominalEnd]
            /\ s' = [s EXCEPT !.FailedConnects = @ + 1]
            /\ SetWk(w, Returned)
     ELSE IF NearDeadline(TwoSeconds)
       THEN /\ cData' = [cData EXCEPT ![id].ended = NominalEnd]
            /\ s' = s
            /\ SetWk(w, Returned)
     ELSE /\ s' = [s EXCEPT !.FailedConnects = @ + 1]
          /\ cData' = cData
          /\ SetWk(w, [wk[w] EXCEPT !.pc = "dialing",
                                    !.backoff = NextBackoff(@),
                                    !.wake = now + DialTimeout])
  /\ UNCHANGED SameAll

----------------------------------------------------------------------------
(* echoConn.Run and udpConn.Run *)

(* WaitN on a context that is never done *)
WaitNNoContext(r) ==
  LET tok == Advance(r.tokens, r.last, now)
      delay == IF tok >= PSize THEN 0 ELSE WaitTicks(PSize - tok)
  IN [r EXCEPT !.pc = "waiting", !.tokens = tok - PSize, !.last = now,
               !.wake = now + delay]

(* lim.WaitN(ctx, psize) called now by the worker in state r: an error when
   the context is done or the delay would pass the deadline (the loop
   breaks and Run returns nil), else the tokens are reserved and the worker
   waits for them *)
WaitN(r) ==
  LET tok == Advance(r.tokens, r.last, now)
      delay == IF tok >= PSize THEN 0 ELSE WaitTicks(PSize - tok)
  IN IF CtxErr \/ now + delay > Deadline
       THEN RunReturns(r, "")
       ELSE [r EXCEPT !.pc = "waiting", !.tokens = tok - PSize, !.last = now,
                      !.wake = now + delay]

(* lim := newLimiter(ctx, rate, psize), nil if the context is done, and
   the first lim.WaitN of the loop *)
NewLimiter(w) ==
  /\ Running /\ wk[w].pc = "newLimiter"
  /\ IF CtxErr
       THEN SetWk(w, RunReturns(wk[w], ""))
       ELSE \E r \in 0..(PSize - 1) :
              SetWk(w, WaitN([wk[w] EXCEPT
                                !.tokens = DrainBucket(Burst * PSize - r),
                                !.last = now]))
  /\ UNCHANGED <<cData, s>> /\ UNCHANGED SameAll

(* the context is done while WaitN waits: break *)
WaitCancelled(w) ==
  /\ Running /\ wk[w].pc = "waiting" /\ CtxErr
  /\ SetWk(w, RunReturns(wk[w], ""))
  /\ UNCHANGED <<cData, s>> /\ UNCHANGED SameAll

(* WaitN returns nil and c.conn.Write(p) succeeds: c.cd.sent++ *)
WriteOk(w) ==
  /\ Running /\ wk[w].pc = "waiting" /\ now >= wk[w].wake
  /\ cData' = [cData EXCEPT ![wk[w].id].sent = @ + 1]
  /\ SetWk(w, [wk[w] EXCEPT !.pc = "sSent"])
  /\ UNCHANGED s /\ UNCHANGED SameAll

(* WaitN returns nil and c.conn.Write(p) fails: return err *)
WriteFail(w) ==
  /\ Running /\ wk[w].pc = "waiting" /\ now >= wk[w].wake
  /\ SetWk(w, RunReturns(wk[w], "write"))
  /\ UNCHANGED <<cData, s>> /\ UNCHANGED SameAll

(* the time since SetReadDeadline(time.Now().Add(time.Second)) *)
ReadTime(r) == now - (r.wake - ReadDeadline)

(* the backlog of a bucket that forgets the tokens WaitN has reserved *)
BacklogNoDebt(r) ==
  LET tok == Advance(IF r.tokens < 0 THEN 0 ELSE r.tokens, r.last, now)
  IN IF tok >= PSize THEN tok \div PSize ELSE 0

(* whole packets the bucket holds now: the iterations of
   for lim.AllowN(time.Now(), psize) *)
Backlog(r) ==
  LET tok == Advance(r.tokens, r.last, now)
  IN IF tok >= PSize THEN tok \div PSize ELSE 0

(* StatSent without s.sent(1) *)
StatSentForgotten(w) ==
  LET k == Backlog(wk[w]) IN
  /\ Running /\ wk[w].pc = "sSent"
  /\ s' = [s EXCEPT !.Dropped = @ + k]
  /\ cData' = [cData EXCEPT ![wk[w].id].dropped = @ + k]
  /\ SetWk(w, [wk[w] EXCEPT
                 !.pc = "read", !.drops = k,
                 !.tokens = Advance(wk[w].tokens, wk[w].last, now) - k * PSize,
                 !.last = now,
                 !.wake = now + ReadDeadline])
  /\ UNCHANGED SameAll

(* s.sent(1); every packet of backlog is counted as dropped in the slot
   and in the total; then the read with its deadline begins *)
StatSent(w) ==
  LET k == Backlog(wk[w]) IN
  /\ Running /\ wk[w].pc = "sSent"
  /\ s' = [s EXCEPT !.Sent = @ + 1, !.Dropped = @ + k]
  /\ cData' = [cData EXCEPT ![wk[w].id].dropped = @ + k]
  /\ SetWk(w, [wk[w] EXCEPT
                 !.pc = "read", !.drops = k,
                 !.tokens = Advance(wk[w].tokens, wk[w].last, now) - k * PSize,
                 !.last = now,
                 !.wake = now + ReadDeadline])
  /\ UNCHANGED SameAll

(* the echo arrives before the read deadline: c.cd.nPacketsReceived++ *)
ReadOk(w) ==
  /\ Running /\ wk[w].pc = "read" /\ now <= wk[w].wake
  /\ cData' = [cData EXCEPT ![wk[w].id].received = @ + 1]
  /\ SetWk(w, [wk[w] EXCEPT !.pc = "sReceived", !.delay = ReadTime(wk[w])])
  /\ UNCHANGED s /\ UNCHANGED SameAll

(* a failed read taken for a lost packet in TCP mode too *)
ReadFailContinues(w) ==
  /\ Running /\ wk[w].pc = "read"
  /\ SetWk(w, WaitN([wk[w] EXCEPT !.delay = ReadTime(wk[w])]))
  /\ UNCHANGED <<cData, s>> /\ UNCHANGED SameAll

(* a failed read that ends Run with the error in UDP mode too *)
ReadFailReturns(w) ==
  /\ Running /\ wk[w].pc = "read"
  /\ SetWk(w, RunReturns(wk[w], "read"))
  /\ UNCHANGED <<cData, s>> /\ UNCHANGED SameAll

(* the read fails (reset, EOF, or the timeout at the read deadline):
   TCP returns the error, UDP takes it for a lost packet and continues *)
ReadFail(w) ==
  /\ Running /\ wk[w].pc = "read"
  /\ SetWk(w, IF cfg.mode = "tcp"
                THEN RunReturns(wk[w], "read")
                ELSE WaitN([wk[w] EXCEPT !.delay = ReadTime(wk[w])]))
  /\ UNCHANGED <<cData, s>> /\ UNCHANGED SameAll

(* s.received(1), and the next lim.WaitN *)
StatReceived(w) ==
  /\ Running /\ wk[w].pc = "sReceived"
  /\ s' = [s EXCEPT !.Received = @ + 1]
  /\ SetWk(w, WaitN(wk[w]))
  /\ UNCHANGED cData /\ UNCHANGED SameAll

(* the return after a Run that returned nil, without cd.ended *)
RanOkNotEnded(w) ==
  /\ Running /\ wk[w].pc = "ranOk"
  /\ SetWk(w, Returned)
  /\ UNCHANGED <<cData, s>> /\ UNCHANGED SameAll

(* Run returned nil: the connection counts as lasting to the test end *)
RanOk(w) ==
  /\ Running /\ wk[w].pc = "ranOk"
  /\ cData' = [cData EXCEPT ![wk[w].id].ended = NominalEnd]
  /\ SetWk(w, Returned)
  /\ UNCHANGED s /\ UNCHANGED SameAll

(* RanErr without s.failedConnection(1) *)
RanErrNotCounted(w) ==
  /\ Running /\ wk[w].pc = "ranErr"
  /\ cData' = [cData EXCEPT ![wk[w].id] =
                 [@ EXCEPT !.err = wk[w].err, !.ended = now]]
  /\ s' = s
  /\ SetWk(w, IF cfg.mode = "tcp" /\ ~cfg.reconnect
                THEN Returned ELSE NewWorker)
  /\ UNCHANGED SameAll

(* RanErr without cd.ended = time.Now() *)
RanErrNotEnded(w) ==
  /\ Running /\ wk[w].pc = "ranErr"
  /\ cData' = [cData EXCEPT ![wk[w].id].err = wk[w].err]
  /\ s' = IF cfg.mode = "tcp"
            THEN [s EXCEPT !.FailedConnections = @ + 1] ELSE s
  /\ SetWk(w, IF cfg.mode = "tcp" /\ ~cfg.reconnect
                THEN Returned ELSE NewWorker)
  /\ UNCHANGED SameAll

(* RanErr without the test of the reconnect flag *)
RanErrLoops(w) ==
  /\ Running /\ wk[w].pc = "ranErr"
  /\ cData' = [cData EXCEPT ![wk[w].id] =
                 [@ EXCEPT !.err = wk[w].err, !.ended = now]]
  /\ s' = IF cfg.mode = "tcp"
            THEN [s EXCEPT !.FailedConnections = @ + 1] ELSE s
  /\ SetWk(w, NewWorker)
  /\ UNCHANGED SameAll

(* Run returned an error: cd.ended = time.Now(); TCP counts a failed
   connection and loops only if reconnect is set, UDP loops *)
RanErr(w) ==
  /\ Running /\ wk[w].pc = "ranErr"
  /\ cData' = [cData EXCEPT ![wk[w].id] =
                 [@ EXCEPT !.err = wk[w].err, !.ended = now]]
  /\ s' = IF cfg.mode = "tcp"
            THEN [s EXCEPT !.FailedConnections = @ + 1] ELSE s
  /\ SetWk(w, IF cfg.mode = "tcp" /\ ~cfg.reconnect
                THEN Returned ELSE NewWorker)
  /\ UNCHANGED SameAll

----------------------------------------------------------------------------
(* printStats: copyStats and reportStats, run by a worker before
   log.Fatal("Too many re-connects") and by the main goroutine after the
   join *)

Report(st, who) == [by |-> who, stats |-> st]

(* slot i is claimed by a worker other than reader that has not returned
   from the iteration *)
LiveForeign(i, reader) ==
  \E v \in Workers :
    v # reader /\ wk[v].id = i /\ wk[v].pc \notin {"done", "check"}

(* what copyStats touches when reader runs it: an index out of range, a
   slot another worker still writes *)
CopyOob == cfg.stats = "all" /\ \E i \in CopiedSlots : i \notin DOMAIN cData

CopyRaced(reader) ==
  cfg.stats = "all" /\ \E i \in CopiedSlots : LiveForeign(i, reader)

WorkerPrintStats(w) ==
  /\ Running /\ wk[w].pc = "printStats"
  /\ IF cfg.stats # "none"
       THEN /\ s' = CopyStats(s)
            /\ oob' = (oob \/ CopyOob)
            /\ raced' = (raced \/ CopyRaced(w))
            /\ SetWk(w, [wk[w] EXCEPT !.pc = "reportStats"])
       ELSE /\ UNCHANGED <<s, oob, raced>>
            /\ SetWk(w, [wk[w] EXCEPT !.pc = "logFatal"])
  /\ UNCHANGED <<cfg, an, lim, mon, smp, dialErrs, now, interrupted, nConn, cData, out, proc, fatalMsg,
                 mainPc, claimed>>

WorkerReportStats(w) ==
  /\ Running /\ wk[w].pc = "reportStats"
  /\ s' = ReportStats(s)
  /\ out' = Append(out, Report(s', w))
  /\ SetWk(w, [wk[w] EXCEPT !.pc = "logFatal"])
  /\ UNCHANGED <<cfg, an, lim, mon, smp, dialErrs, now, interrupted, nConn, cData, proc, fatalMsg, mainPc,
                 oob, raced, claimed>>

LogFatal(w) ==
  /\ Running /\ wk[w].pc = "logFatal"
  /\ proc' = "fatal"
  /\ fatalMsg' = "Too many re-connects"
  /\ UNCHANGED <<cfg, an, lim, mon, smp, dialErrs, now, interrupted, nConn, cData, wk, s, out, mainPc, oob,
                 raced, claimed>>

----------------------------------------------------------------------------
(* clientMain and udpClientMain after the workers are started *)

AllDone == \A w \in Workers : wk[w].pc = "done"

(* wg.Wait() returns *)
Join ==
  /\ Running /\ mainPc = "wait" /\ AllDone
  /\ mainPc' = "printStats"
  /\ UNCHANGED <<cfg, an, lim, mon, smp, dialErrs, now, interrupted, nConn, cData, wk, s, out, proc,
                 fatalMsg, oob, raced, claimed>>

(* the main goroutine returns without printStats *)
MainPrintStatsSkipped ==
  /\ Running /\ mainPc = "printStats"
  /\ mainPc' = "return"
  /\ UNCHANGED <<cfg, an, lim, mon, smp, dialErrs, now, interrupted, nConn, cData, wk, s, out, proc,
                 fatalMsg, oob, raced, claimed>>

MainPrintStats ==
  /\ Running /\ mainPc = "printStats"
  /\ IF cfg.stats # "none"
       THEN /\ s' = CopyStats(s)
            /\ oob' = (oob \/ CopyOob)
            /\ raced' = (raced \/ CopyRaced(0))
            /\ mainPc' = "reportStats"
       ELSE /\ UNCHANGED <<s, oob, raced>>
            /\ mainPc' = "return"
  /\ UNCHANGED <<cfg, an, lim, mon, smp, dialErrs, now, interrupted, nConn, cData, wk, out, proc, fatalMsg,
                 claimed>>

MainReportStats ==
  /\ Running /\ mainPc = "reportStats"
  /\ s' = ReportStats(s)
  /\ out' = Append(out, Report(s', 0))
  /\ mainPc' = "return"
  /\ UNCHANGED <<cfg, an, lim, mon, smp, dialErrs, now, interrupted, nConn, cData, wk, proc, fatalMsg, oob,
                 raced, claimed>>

(* return 0, and main exits *)
MainReturn ==
  /\ Running /\ mainPc = "return"
  /\ proc' = "exit0"
  /\ mainPc' = "done"
  /\ UNCHANGED <<cfg, an, lim, mon, smp, dialErrs, now, interrupted, nConn, cData, wk, s, out, fatalMsg,
                 oob, raced, claimed>>

----------------------------------------------------------------------------
(* The environment: the clock and the operator's signal *)

(* the sampler: after time.Sleep(time.Second) it reads s.Sent, s.Received
   and s.Dropped one after the other and appends the sample *)
SampleSent ==
  /\ Running /\ smp.pc = "sleep" /\ now >= smp.wake
  /\ smp' = [smp EXCEPT !.pc = "readReceived", !.sent = s.Sent]
  /\ UNCHANGED <<cfg, an, lim, mon, now, interrupted, nConn, cData, wk, s, out, proc,
                 fatalMsg, mainPc, oob, raced, claimed, dialErrs>>

SampleReceived ==
  /\ Running /\ smp.pc = "readReceived"
  /\ smp' = [smp EXCEPT !.pc = "append", !.received = s.Received]
  /\ UNCHANGED <<cfg, an, lim, mon, now, interrupted, nConn, cData, wk, s, out, proc,
                 fatalMsg, mainPc, oob, raced, claimed, dialErrs>>

SampleAppend ==
  /\ Running /\ smp.pc = "append"
  /\ s' = [s EXCEPT !.Samples =
              Append(@, [Time |-> now - s.Started, Sent |-> smp.sent,
                         Received |-> smp.received, Dropped |-> s.Dropped])]
  /\ smp' = SamplerRound(now, SampleDeadline(cfg))
  /\ UNCHANGED <<cfg, an, lim, mon, now, interrupted, nConn, cData, wk, out, proc,
                 fatalMsg, mainPc, oob, raced, claimed, dialErrs>>

SamplerReady == smp.pc \in {"readReceived", "append"}
                  \/ (smp.pc = "sleep" /\ now >= smp.wake)

SamplerStep == SampleSent \/ SampleReceived \/ SampleAppend

(* the monitor: after time.Sleep(time.Second) it takes the smaller of
   len(cData) and nConn, looks at cData[:monConns] and prints a line *)
MonFrame == <<cfg, an, lim, smp, dialErrs, now, interrupted, nConn, cData, wk,
              s, out, fatalMsg, mainPc, raced, claimed>>

(* the cursor taken for the number of slots *)
MonConnsUncapped(len, cursor) == cursor

(* monConns := uint32(len(cData)); if monConns > nConn { monConns = nConn } *)
MonConns(len, cursor) == IF len > cursor THEN cursor ELSE len

MonitorWake ==
  /\ Running /\ mon.pc = "sleep" /\ now >= mon.wake
  /\ mon' = [mon EXCEPT !.pc = "scan", !.monConns = MonConns(LenCData, nConn)]
  /\ UNCHANGED <<oob, proc>> /\ UNCHANGED MonFrame

(* the slots of cData[:monConns] without error *)
Scanned(n) == {i \in 0..(n - 1) : cData[i].err = ""}

(* for _, cd := range cData[:monConns], fmt.Fprintf(os.Stderr, ...); the
   slice expression panics if monConns is above the capacity *)
MonitorScan ==
  /\ Running /\ mon.pc = "scan"
  /\ IF mon.monConns > LenCData
       THEN /\ oob' = TRUE
            /\ proc' = "panic"
            /\ mon' = mon
       ELSE /\ mon' =
                 MonitorRound(
                   [mon EXCEPT
                      !.lines = @ + 1,
                      !.line =
                        [act |-> Cardinality({i \in Scanned(mon.monConns) :
                                                cData[i].connected # Unset}),
                         connecting |->
                           Cardinality({i \in Scanned(mon.monConns) :
                                          cData[i].connected = Unset}),
                         fail |-> s.FailedConnections, sent |-> s.Sent,
                         rec |-> s.Received, dropped |-> s.Dropped]],
                   now, MonitorDeadline(cfg))
            /\ UNCHANGED <<oob, proc>>
  /\ UNCHANGED MonFrame

MonitorReady == mon.pc = "scan" \/ (mon.pc = "sleep" /\ now >= mon.wake)

MonitorStep == MonitorWake \/ MonitorScan

(* a goroutine that has a step to take now *)
Ready(w) ==
  CASE wk[w].pc = "done" -> FALSE
    [] wk[w].pc \in {"dialing", "waiting"} -> now >= wk[w].wake \/ CtxErr
    [] wk[w].pc \in {"sleeping", "read"} -> now >= wk[w].wake
    [] OTHER -> TRUE

Tick ==
  /\ Running /\ now < MaxTime
  /\ mainPc = "wait" /\ ~AllDone
  /\ \A w \in Workers : ~Ready(w)
  /\ ~SamplerReady /\ ~MonitorReady
  /\ now' = now + 1
  /\ UNCHANGED <<cfg, an, lim, mon, smp, dialErrs, interrupted, nConn, cData, wk, s, out, proc, fatalMsg,
                 mainPc, oob, raced, claimed>>

(* SIGINT or SIGTERM: clientMain cancels the context (signal.NotifyContext),
   udpClientMain installs no handler and the process is killed *)
Interrupt ==
  /\ Running /\ ~interrupted
  /\ IF cfg.mode = "tcp"
       THEN interrupted' = TRUE /\ proc' = proc
       ELSE interrupted' = TRUE /\ proc' = "killed"
  /\ UNCHANGED <<cfg, an, lim, mon, smp, dialErrs, now, nConn, cData, wk, s, out, fatalMsg, mainPc, oob,
                 raced, claimed>>

WorkerStep(w) ==
  \/ Claim(w) \/ Setup(w) \/ DialOk(w) \/ DialFail(w) \/ Retry(w)
  \/ NewLimiter(w) \/ WaitCancelled(w) \/ WriteOk(w) \/ WriteFail(w)
  \/ StatSent(w) \/ ReadOk(w) \/ ReadFail(w) \/ StatReceived(w)
  \/ RanOk(w) \/ RanErr(w)
  \/ WorkerPrintStats(w) \/ WorkerReportStats(w) \/ LogFatal(w)

MainStep == Join \/ MainPrintStats \/ MainReportStats \/ MainReturn

Next ==
  \/ \E w \in Workers : WorkerStep(w)
  \/ MainStep
  \/ Tick

Spec == Init /\ [][Next]_vars

(* the same runs with a source-address file *)
SpecSrc == InitSrc /\ [][Next]_vars

(* the runs of one worker with the sampler goroutine *)
NextSmp == Next \/ SamplerStep

SpecSmp == InitSmp /\ [][NextSmp]_vars

(* the long runs of one TCP worker against a peer that refuses the
   connection or closes it before the first packet: every Write fails *)
ConnectStep(w) ==
  \/ Claim(w) \/ Setup(w) \/ DialOk(w) \/ DialFail(w) \/ Retry(w)
  \/ NewLimiter(w) \/ WaitCancelled(w) \/ WriteFail(w)
  \/ RanOk(w) \/ RanErr(w)
  \/ WorkerPrintStats(w) \/ WorkerReportStats(w) \/ LogFatal(w)

NextLong ==
  \/ \E w \in Workers : ConnectStep(w)
  \/ MainStep
  \/ Tick

SpecLong == InitLong /\ [][NextLong]_vars

(* the runs of one worker with the monitor goroutine (-monitor) *)
NextMon == Next \/ MonitorStep

SpecMon == InitMon /\ [][NextMon]_vars

(* the same runs with a signal from the operator *)
NextSig == Next \/ Interrupt

SpecSig == Init /\ [][NextSig]_vars

----------------------------------------------------------------------------
(* The report as JSON, and the run with -stat_file (analyzeMain) *)

(* a Go slice: nil, or its elements *)
NilSlice == [isNil |-> TRUE, elems |-> <<>>]

Slice(seq) == [isNil |-> FALSE, elems |-> seq]

(* bytes that are not valid UTF-8, as a peer may put them in its first
   packet, and what encoding/json writes for them (U+FFFD) *)
BadHost == "node<ff>"

ToValidUTF8(str) == IF str = BadHost THEN "node<fffd>" ELSE str

ScalarKeys ==
  {"Started", "Duration", "FailedConnections", "Sent", "Received", "Dropped",
   "FailedConnects"}

ConnKeys ==
  {"Started", "Connect", "Ended", "Err", "Sent", "Received", "Dropped"}

(* a connstats as a JSON object: Host has omitempty *)
EncodeConn(c) ==
  [k \in ConnKeys \cup (IF c.Host # "" THEN {"Host"} ELSE {}) |->
     IF k \in {"Err", "Host"} THEN ToValidUTF8(c[k]) ELSE c[k]]

DecodeConn(j) ==
  [Started |-> j.Started, Connect |-> j.Connect, Ended |-> j.Ended,
   Err |-> j.Err, Sent |-> j.Sent, Received |-> j.Received,
   Dropped |-> j.Dropped,
   Host |-> IF "Host" \in DOMAIN j THEN j.Host ELSE ""]

(* an encoder that writes ConnStats and Samples always *)
EncodedKeysNoOmit(st) == ScalarKeys \cup {"ConnStats", "Samples"}

(* the keys json.Encoder writes: ConnStats and Samples have omitempty and
   are left out when their length is 0 *)
EncodedKeys(st) ==
  ScalarKeys
    \cup (IF Len(st.ConnStats.elems) > 0 THEN {"ConnStats"} ELSE {})
    \cup (IF Len(st.Samples.elems) > 0 THEN {"Samples"} ELSE {})

(* json.NewEncoder(os.Stdout).Encode(s) *)
Encode(st) ==
  [k \in EncodedKeys(st) |->
     CASE k = "ConnStats" ->
            [i \in 1..Len(st.ConnStats.elems) |->
               EncodeConn(st.ConnStats.elems[i])]
       [] k = "Samples" -> st.Samples.elems
       [] OTHER -> st[k]]

(* readStats: dec.Decode(&s) into a zero statistics; a key that is absent
   leaves the field nil *)
Decode(js) ==
  [Started |-> js.Started, Duration |-> js.Duration,
   FailedConnections |-> js.FailedConnections, Sent |-> js.Sent,
   Received |-> js.Received, Dropped |-> js.Dropped,
   FailedConnects |-> js.FailedConnects,
   ConnStats |-> IF "ConnStats" \in DOMAIN js
                   THEN Slice([i \in 1..Len(js.ConnStats) |->
                                 DecodeConn(js.ConnStats[i])])
                   ELSE NilSlice,
   Samples |-> IF "Samples" \in DOMAIN js
                 THEN Slice(js.Samples) ELSE NilSlice]

(* the statistics the analyzer is run on *)
MaxConnStats == 2
MaxDuration == 5

ConnRecords ==
  [Started : {0, 3}, Connect : {0, 1, 4}, Ended : {0, 1, 3, 5},
   Err : {"", "read"}, Sent : {1}, Received : {1}, Dropped : {0},
   Host : {"", "node1", BadHost}]

RECURSIVE SeqsUpTo(_, _)
SeqsUpTo(S, n) ==
  IF n = 0 THEN {<<>>}
  ELSE LET shorter == SeqsUpTo(S, n - 1)
       IN shorter \cup {Append(q, x) : q \in shorter, x \in S}

OneSample == [Time |-> 2, Sent |-> 1, Received |-> 1, Dropped |-> 0]

Reports ==
  [Started : {0}, Duration : {MaxDuration - 2, MaxDuration},
   FailedConnections : {0}, Sent : {2}, Received : {2}, Dropped : {0},
   FailedConnects : {0},
   ConnStats : {NilSlice} \cup {Slice(q) : q \in SeqsUpTo(ConnRecords, MaxConnStats)},
   Samples : {NilSlice, Slice(<<>>), Slice(<<OneSample>>)}]

NoJson == [k \in {} |-> 0]

NewAnalyzer(st) ==
  [pc |-> "reportStats", orig |-> st, file |-> NoJson, s |-> st, i |-> 0,
   last |-> 0, rows |-> <<>>, cols |-> <<>>]

AnaConfig ==
  [mode |-> "tcp", nconn |-> 1, retries |-> 1, reconnect |-> FALSE,
   stats |-> "all", srcfile |-> NoFile, timeout |-> Timeout]

InitAna ==
  /\ cfg = AnaConfig
  /\ now = 0
  /\ interrupted = FALSE
  /\ nConn = 0
  /\ cData = [i \in 0..(TableCap(cfg) - 1) |-> ZeroConn]
  /\ wk = [w \in 1..cfg.nconn |-> NewWorker]
  /\ s = NewStats(cfg)
  /\ out = <<>>
  /\ proc = "running"
  /\ fatalMsg = ""
  /\ mainPc = "analyzeMain"
  /\ oob = FALSE
  /\ raced = FALSE
  /\ claimed = <<>>
  /\ smp = NoSampler
  /\ dialErrs = 0
  /\ an \in {NewAnalyzer(st) : st \in Reports}
  /\ lim = NoLimiter
  /\ mon = NoMonitor

ClientVars == <<cfg, now, interrupted, nConn, cData, wk, s, out, proc,
                fatalMsg, mainPc, oob, raced, claimed, smp, dialErrs, lim,
                mon>>

(* the client wrote the report to the file *)
WriteStats ==
  /\ an.pc = "reportStats"
  /\ an' = [an EXCEPT !.pc = "readStats", !.file = Encode(an.orig)]
  /\ UNCHANGED ClientVars

(* analyzeMain: s, err = readStats(file) *)
ReadStats ==
  /\ an.pc = "readStats"
  /\ an' = [an EXCEPT !.pc = "analyze", !.s = Decode(an.file),
                      !.i = OneSecond, !.last = 0]
  /\ UNCHANGED ClientVars

(* new++ taken as an alternative to connecting++ and act++ *)
ColumnsExclusive(c, last, i) ==
  IF c.Ended < last THEN {}
  ELSE IF c.Ended < i THEN (IF c.Err # "" THEN {"fail"} ELSE {})
  ELSE IF c.Started > i THEN {}
  ELSE IF c.Started > last THEN {"new"}
  ELSE IF c.Connect = 0 \/ c.Connect > i THEN {"connecting"} ELSE {"act"}

(* analyzeConnections, the body of the inner loop for record c: the
   counters it increments *)
Columns(c, last, i) ==
  IF c.Ended < last THEN {}
  ELSE IF c.Ended < i THEN (IF c.Err # "" THEN {"fail"} ELSE {})
  ELSE IF c.Started > i THEN {}
  ELSE (IF c.Started > last THEN {"new"} ELSE {})
         \cup (IF c.Connect = 0 \/ c.Connect > i
                 THEN {"connecting"} ELSE {"act"})

Count(cols, name) == Cardinality({k \in DOMAIN cols : name \in cols[k]})

(* one round of the loop over the one-second buckets: a record that has
   Ended = 0 ends the run, else the row is printed *)
AnalyzeBucket ==
  LET recs == an.s.ConnStats.elems
      cols == [k \in DOMAIN recs |-> Columns(recs[k], an.last, an.i)]
  IN
  /\ an.pc = "analyze" /\ an.i < an.s.Duration
  /\ IF \E k \in DOMAIN recs : recs[k].Ended = 0
       THEN an' = [an EXCEPT !.pc = "fatal"]
       ELSE an' = [an EXCEPT
                     !.cols = cols,
                     !.rows = Append(@, [Time |-> an.last + 1,
                                         act |-> Count(cols, "act"),
                                         new |-> Count(cols, "new"),
                                         fail |-> Count(cols, "fail"),
                                         connecting |->
                                           Count(cols, "connecting")]),
                     !.last = an.i,
                     !.i = an.i + OneSecond]
  /\ UNCHANGED ClientVars

AnalyzeReturn ==
  /\ an.pc = "analyze" /\ ~(an.i < an.s.Duration)
  /\ an' = [an EXCEPT !.pc = "done"]
  /\ UNCHANGED ClientVars

NextAna == WriteStats \/ ReadStats \/ AnalyzeBucket \/ AnalyzeReturn

SpecAna == InitAna /\ [][NextAna]_vars

----------------------------------------------------------------------------
(* Properties *)

RECURSIVE SumOver(_, _)
SumOver(seq, field) ==
  IF seq = <<>> THEN 0
  ELSE seq[1][field] + SumOver(Tail(seq), field)

(* the pcs at which a worker uses the slot wk[w].id *)
SlotPcs ==
  {"dialing", "sleeping", "newLimiter", "waiting", "sSent", "read",
   "sReceived", "ranOk", "ranErr"}

(* the pcs of a worker whose claim returned an index past the table *)
FatalPcs == {"setup", "printStats", "reportStats", "logFatal"}

Holds(w) == wk[w].pc \in SlotPcs

(* C1: every index used on the slot table is below its capacity (the
   table is never indexed out of range, the runtime never panics, a worker
   that works on a slot holds an index of the table), and a worker whose
   claim returned an index at or past the capacity is on the way to
   log.Fatal("Too many re-connects") and nowhere else *)
C1_SlotIndexBelowCapacity ==
  /\ oob = FALSE
  /\ proc # "panic"
  /\ \A w \in Workers :
       /\ Holds(w) => wk[w].id \in 0..(LenCData - 1)
       /\ (wk[w].id # Unset /\ wk[w].id >= LenCData)
            => wk[w].pc \in FatalPcs
  /\ \A i \in DOMAIN cData : cData[i].started # Unset => i < nConn

(* a UDP run has ended in "Too many re-connects" on an index past the
   table *)
C1_Witness ==
  /\ cfg.mode = "udp"
  /\ proc = "fatal" /\ fatalMsg = "Too many re-connects"
  /\ \E w \in Workers : wk[w].id >= LenCData

(* C2: no two claims obtain the same index, and two workers never hold
   the same slot *)
C2_ClaimsAreDistinct ==
  /\ \A i, j \in 1..Len(claimed) : i # j => claimed[i] # claimed[j]
  /\ \A v, w \in Workers :
       (v # w /\ wk[v].id # Unset /\ wk[w].id # Unset)
         => wk[v].id # wk[w].id

(* two workers hold the two slots of the table at once *)
C2_Witness ==
  /\ Len(claimed) = 2
  /\ \E v, w \in Workers :
       v # w /\ wk[v].pc = "read" /\ wk[w].pc = "read"

(* C3: while a worker is still running the clock is at most the deadline
   plus the one second of the read deadline, whatever the peer does, so
   the join completes by then; and until the process has ended some step
   is always possible, so no worker waits or retries for ever *)
C3_JoinWithinGrace ==
  Running =>
    /\ now <= Deadline + ReadDeadline
    /\ ENABLED Next

(* the join completed one second after the deadline, the last read
   having timed out *)
C3_Witness ==
  /\ proc = "exit0"
  /\ now = Deadline + ReadDeadline
  /\ s.FailedConnections >= 1

(* C4: the report is written at most once in a run *)
C4_ReportAtMostOnce == Len(out) <= 1

(* C5: copyStats never reads a slot whose claiming worker is still
   running *)
C5_CopyAfterWorkersEnd == raced = FALSE

(* C6: in every report written with stats=all the totals are the sums of
   the per-connection records *)
C6_TotalsAreSums ==
  \A k \in 1..Len(out) :
    cfg.stats = "all" =>
      /\ SumOver(out[k].stats.ConnStats, "Sent") = out[k].stats.Sent
      /\ SumOver(out[k].stats.ConnStats, "Received") = out[k].stats.Received
      /\ SumOver(out[k].stats.ConnStats, "Dropped") = out[k].stats.Dropped

(* C7: Received never exceeds Sent, in the totals and in every slot *)
C7_ReceivedAtMostSent ==
  /\ s.Received <= s.Sent
  /\ \A i \in DOMAIN cData : cData[i].received <= cData[i].sent

(* packets were echoed and one was lost *)
C7_Witness ==
  /\ s.Received >= 1
  /\ s.Received < s.Sent
  /\ \E i \in DOMAIN cData : cData[i].received >= 1

(* C8 as stated: a run that reaches the end of main has written a report *)
C8_ReportAlwaysEmitted == mainPc = "done" => Len(out) >= 1

(* C8 amended: a run that reaches the end of main has written exactly one
   report, after the join and by the main goroutine, unless stats=none,
   and then it has written nothing *)
C8_ReportUnlessNone ==
  mainPc = "done" =>
    IF cfg.stats = "none" THEN out = <<>>
    ELSE Len(out) = 1 /\ out[1].by = 0 /\ AllDone

(* the report of a run in which a connection failed *)
C8_Witness ==
  /\ mainPc = "done"
  /\ Len(out) = 1
  /\ out[1].stats.FailedConnections >= 1

(* C9: a run that ends in a fatal condition of a worker has written the
   report (stats=none asks for no report) *)
C9_FatalFlushesStats ==
  (proc = "fatal" /\ cfg.stats # "none") => Len(out) >= 1

(* the lines of the source-address file *)
Pool == Addresses(cfg.srcfile)

(* C10: with a file of K lines and a table of more than K slots, a slot
   i < K that is set up is bound to line i, the run ends with "Ran out of
   source addresses" only after the claim of index K, and no slot of
   index K or more is ever used *)
C10_PoolExhaustedAtClaimK ==
  (cfg.srcfile # NoFile /\ cfg.srcfile < LenCData) =>
    /\ \A i \in DOMAIN cData :
         (i < cfg.srcfile /\ cData[i].started # Unset)
           => cData[i].localAddr = withPort(Pool[i + 1])
    /\ proc = "fatal"
         => fatalMsg = "Ran out of source addresses" /\ nConn > cfg.srcfile
    /\ \A w \in Workers :
         (wk[w].id # Unset /\ wk[w].id >= cfg.srcfile) => wk[w].pc = "setup"
    /\ \A i \in DOMAIN cData :
         (i >= cfg.srcfile /\ cData[i].started # Unset) => proc = "fatal"

(* slot 0 got line 0 and carried traffic, the claim of index 1 ended the
   run *)
C10_Witness ==
  /\ cfg.srcfile = 1
  /\ proc = "fatal" /\ fatalMsg = "Ran out of source addresses"
  /\ cData[0].localAddr = withPort(Pool[1])
  /\ cData[0].sent >= 1
  /\ \E w \in Workers : wk[w].id = 1

(* seq p is a prefix of seq q *)
IsPrefix(p, q) == Len(p) <= Len(q) /\ \A i \in 1..Len(p) : p[i] = q[i]

(* the slots that have been claimed: cd.started is set at the claim *)
ClaimedSlots == {i \in DOMAIN cData : cData[i].started # Unset}

(* C11: no report with stats=none; a report with stats=summary has neither
   ConnStats nor Samples; a report with stats=all has one record per
   claimed slot and none for anything else, record i copied from slot i,
   and the samples appended so far *)
C11_ReportFollowsVerbosity ==
  /\ cfg.stats = "none" => out = <<>>
  /\ \A k \in 1..Len(out) :
       LET r == out[k].stats IN
       /\ cfg.stats = "summary" => r.ConnStats = <<>> /\ r.Samples = <<>>
       /\ cfg.stats = "all" =>
            /\ \A i \in 1..Len(r.ConnStats) : (i - 1) \in ClaimedSlots
            /\ out[k].by = 0 =>
                 /\ Len(r.ConnStats) = Cardinality(ClaimedSlots)
                 /\ \A i \in 1..Len(r.ConnStats) :
                      r.ConnStats[i] = ConnStatsOf(cData[i - 1], r)
            /\ IsPrefix(r.Samples, s.Samples)

(* C12: a run that got SIGINT or SIGTERM is not killed: its context is
   cancelled, it keeps taking steps until it has ended, and when it ends
   with the return of main the report has been written *)
C12_InterruptUnwinds ==
  interrupted =>
    /\ proc # "killed"
    /\ Running => ENABLED NextSig
    /\ (proc = "exit0" /\ cfg.stats # "none") => Len(out) = 1

(* the analyzer has printed a row: the bucket of that row and its records *)
RowPrinted == an.pc \in {"analyze", "done"} /\ an.rows # <<>>

BucketEnd == an.last

BucketStart == an.last - OneSecond

(* C13 as stated: no record is counted in two columns of one bucket *)
C13_ExactlyOneColumn ==
  RowPrinted => \A k \in DOMAIN an.cols : Cardinality(an.cols[k]) <= 1

(* C13 amended: a record that is alive at the end of the bucket is counted
   in exactly one of act and connecting, and in new as well if and only if
   it started within the bucket; a record that ended within the bucket is
   counted in fail alone, and only if it has an error; any other record is
   counted nowhere; the row holds these counts *)
C13_ColumnsOfARecord ==
  RowPrinted =>
    /\ \A k \in DOMAIN an.cols :
         LET c == an.s.ConnStats.elems[k]
             cols == an.cols[k]
         IN IF c.Ended >= BucketEnd /\ c.Started <= BucketEnd
              THEN /\ Cardinality(cols \cap {"act", "connecting"}) = 1
                   /\ "fail" \notin cols
                   /\ "new" \in cols <=> c.Started > BucketStart
            ELSE IF c.Ended >= BucketStart /\ c.Ended < BucketEnd
              THEN cols = IF c.Err # "" THEN {"fail"} ELSE {}
            ELSE cols = {}
    /\ LET row == an.rows[Len(an.rows)]
       IN /\ row.act + row.connecting + row.fail <= Len(an.s.ConnStats.elems)
          /\ row.new <= row.act + row.connecting

(* a bucket with a record counted in new and in act, and a failed one *)
C13_Witness ==
  /\ RowPrinted
  /\ \E k \in DOMAIN an.cols : an.cols[k] = {"new", "act"}
  /\ \E k \in DOMAIN an.cols : an.cols[k] = {"fail"}

(* readStats has returned *)
StatsRead == an.pc \in {"analyze", "done", "fatal"}

(* C15 as stated: the statistics read back equal the statistics written *)
C15_RoundTripEqual == StatsRead => an.s = an.orig

(* C15 amended: every scalar field is read back as written; Samples and
   ConnStats are read back element for element, but nil when they have no
   element (also when an empty slice was written); in a record only Host can
   differ, when it was not valid UTF-8 *)
C15_RoundTripButEmptyAndHost ==
  StatsRead =>
    LET a == an.orig
        b == an.s
    IN /\ \A k \in ScalarKeys : b[k] = a[k]
       /\ b.Samples.elems = a.Samples.elems
       /\ b.Samples.isNil <=> a.Samples.elems = <<>>
       /\ Len(b.ConnStats.elems) = Len(a.ConnStats.elems)
       /\ b.ConnStats.isNil <=> a.ConnStats.elems = <<>>
       /\ \A i \in DOMAIN a.ConnStats.elems :
            /\ \A k \in ConnKeys : b.ConnStats.elems[i][k] = a.ConnStats.elems[i][k]
            /\ a.ConnStats.elems[i].Host # BadHost
                 => b.ConnStats.elems[i] = a.ConnStats.elems[i]

(* a report with two records, one with a host name and one without, and
   a sample, read back as written *)
C15_Witness ==
  /\ StatsRead
  /\ an.s = an.orig
  /\ Len(an.orig.ConnStats.elems) = 2
  /\ an.orig.ConnStats.elems[1].Host = "node1"
  /\ an.orig.ConnStats.elems[2].Host = ""
  /\ Len(an.orig.Samples.elems) = 1

(* the nominal packet interval psize / rate, in ticks: 500 ms *)
Interval == PSize \div Refill

(* C14 as stated: with a packet interval above 200 ms no slot ever has a
   dropped packet *)
C14_NeverDropped ==
  Interval * 500 > 200 => \A i \in DOMAIN cData : cData[i].dropped = 0

(* C14 amended: the drain loop after a send finds no packet when the echo
   before it came within one packet interval, and finds one when that echo
   (or the read timeout) took two intervals or more *)
C14_DroppedAfterSlowEcho ==
  \A w \in Workers :
    wk[w].pc = "read" =>
      /\ wk[w].delay <= Interval => wk[w].drops = 0
      /\ wk[w].delay >= 2 * Interval => wk[w].drops >= 1

(* a TCP connection with an echo that took 1 s and a packet counted as
   dropped after the next send *)
C14_Witness ==
  \E w \in Workers :
    /\ cfg.mode = "tcp" /\ wk[w].pc = "read"
    /\ wk[w].delay = ReadDeadline /\ wk[w].drops = 1
    /\ cData[wk[w].id].dropped = 1 /\ cData[wk[w].id].sent = 2

(* wg.Wait() has returned *)
Joined == mainPc \in {"printStats", "reportStats", "return", "done"}

(* C16: in TCP mode a slot has sent at most one packet more than it has
   received, a slot that ended without an error has received all it sent,
   and after the join, and in the report of main, Sent - Received is
   between 0 and FailedConnections *)
C16_SentMinusReceived ==
  cfg.mode = "tcp" =>
    /\ \A i \in DOMAIN cData :
         /\ cData[i].sent - cData[i].received \in {0, 1}
         /\ (cData[i].ended # Unset /\ cData[i].err = "")
              => cData[i].sent = cData[i].received
    /\ Joined => /\ s.Sent - s.Received >= 0
                 /\ s.Sent - s.Received <= s.FailedConnections
    /\ \A k \in 1..Len(out) :
         out[k].by = 0 =>
           /\ out[k].stats.Sent - out[k].stats.Received >= 0
           /\ out[k].stats.Sent - out[k].stats.Received
                <= out[k].stats.FailedConnections

(* a finished TCP run in which one connection lost a packet in flight and
   another ended without error after an echo *)
C16_Witness ==
  /\ cfg.mode = "tcp" /\ mainPc = "done" /\ Len(out) = 1
  /\ out[1].stats.Sent - out[1].stats.Received = 1
  /\ out[1].stats.FailedConnections = 1
  /\ \E i \in DOMAIN cData :
       cData[i].err = "" /\ cData[i].ended # Unset /\ cData[i].received >= 1

(* C17: after the join FailedConnects is the number of dial attempts that
   returned an error *)
C17_FailedConnectsCountsDialErrors ==
  (cfg.mode = "tcp" /\ Joined) => s.FailedConnects = dialErrs

(* the step in which TCP worker w gives up the slot it is connecting *)
Abandons(w) ==
  cfg.mode = "tcp" /\ wk[w].pc = "sleeping" /\ wk'[w].pc = "done"

(* C18: the step that abandons a slot during connecting leaves the slot
   with ended = start + configured duration, no error and no connect time,
   changes neither FailedConnections nor a packet counter of the slot or
   of the total, and claims nothing; and a worker that has returned stays
   returned *)
C18_AbandonWhileConnecting ==
  [][\A w \in Workers :
       /\ Abandons(w) =>
            LET i == wk[w].id IN
            /\ cData'[i].ended = s.Started + cfg.timeout
            /\ cData'[i].err = "" /\ cData'[i].connected = Unset
            /\ cData'[i].sent = 0 /\ cData'[i].received = 0
            /\ cData'[i].dropped = 0
            /\ s'.FailedConnections = s.FailedConnections
            /\ s'.Sent = s.Sent /\ s'.Received = s.Received
            /\ s'.Dropped = s.Dropped
            /\ nConn' = nConn
       /\ wk[w].pc = "done" => wk'[w].pc = "done"]_vars

(* the slots with a terminal error *)
FailedSlots == {i \in DOMAIN cData : cData[i].err # ""}

(* C19: in TCP mode the step after a Run that returned nil leaves the slot
   without error, ended at start + configured duration, and counts
   nothing; the step after a Run that returned an error stores the error,
   ends the slot now and adds one to FailedConnections; and once the
   workers are joined FailedConnections is the number of slots with an
   error *)
C19_OutcomeHandling ==
  [][cfg.mode = "tcp" =>
       /\ \A w \in Workers :
            LET i == wk[w].id IN
            /\ (wk[w].pc = "ranOk" /\ wk'[w].pc # "ranOk") =>
                 /\ cData'[i].err = ""
                 /\ cData'[i].ended = s.Started + cfg.timeout
                 /\ s'.FailedConnections = s.FailedConnections
            /\ (wk[w].pc = "ranErr" /\ wk'[w].pc # "ranErr") =>
                 /\ cData'[i].err = wk[w].err /\ wk[w].err # ""
                 /\ cData'[i].ended = now
                 /\ s'.FailedConnections = s.FailedConnections + 1
       /\ Joined' => s'.FailedConnections = Cardinality(FailedSlots')]_vars

(* the steps of TCP worker w after a failed Run and at the loop head: with
   reconnect off it returns, with reconnect on it goes to the loop head,
   where it claims if and only if 2 s or more remain *)
ReconnectSteps(w) ==
  /\ (wk[w].pc = "ranErr" /\ wk'[w].pc # "ranErr") =>
       wk'[w].pc = IF cfg.reconnect THEN "check" ELSE "done"
  /\ (wk[w].pc = "check" /\ wk'[w].pc # "check") =>
       IF Deadline - now >= TwoSeconds
         THEN wk'[w].pc = "setup" /\ nConn' = nConn + 1
         ELSE wk'[w].pc = "done" /\ nConn' = nConn

(* C20 as stated: without reconnect at most nconn slots are claimed; with
   reconnect a worker whose Run failed claims again if and only if 2 s or
   more remain, and a claim is followed by Connect *)
C20_ReconnectIffTimeRemains ==
  [][cfg.mode = "tcp" =>
       /\ ~cfg.reconnect => nConn' <= cfg.nconn
       /\ \A w \in Workers :
            /\ ReconnectSteps(w)
            /\ (wk[w].pc = "setup" /\ wk'[w].pc # "setup") =>
                 wk'[w].pc = "dialing"]_vars

(* C20 amended: the same, but a claim is followed by Connect only if the
   index is below the capacity of the table; a claim at or past the
   capacity is followed by printStats and log.Fatal *)
C20_ReconnectIffTimeAndCapacity ==
  [][cfg.mode = "tcp" =>
       /\ ~cfg.reconnect => nConn' <= cfg.nconn
       /\ \A w \in Workers :
            /\ ReconnectSteps(w)
            /\ (wk[w].pc = "setup" /\ wk'[w].pc # "setup") =>
                 wk'[w].pc = IF wk[w].id < LenCData
                               THEN "dialing" ELSE "printStats"
            /\ (wk[w].pc = "printStats" /\ wk'[w].pc # "printStats") =>
                 wk'[w].pc \in {"reportStats", "logFatal"}
            /\ (wk[w].pc = "reportStats" /\ wk'[w].pc # "reportStats") =>
                 wk'[w].pc = "logFatal"
            /\ wk[w].pc = "logFatal" => wk'[w].pc = "logFatal"]_vars

(* a worker that lost the connection of slot 0 is connecting its second
   slot *)
C20_Witness ==
  \E w \in Workers :
    /\ cfg.mode = "tcp" /\ cfg.reconnect
    /\ wk[w].pc = "dialing" /\ wk[w].id >= 1
    /\ \E j \in DOMAIN cData :
         j < wk[w].id /\ cData[j].owner = w /\ cData[j].err # ""

----------------------------------------------------------------------------
(* UDP: claims, lost packets *)

(* the slots worker w has claimed so far *)
ClaimsOf(w) == {i \in DOMAIN cData : cData[i].owner = w}

(* C21: in UDP mode no more than nconn slots are claimed, no worker holds
   a second slot, and the run does not end in "Too many re-connects" *)
C21_UdpClaimsOnce ==
  cfg.mode = "udp" =>
    /\ nConn <= cfg.nconn
    /\ \A w \in Workers : Cardinality(ClaimsOf(w)) <= 1
    /\ fatalMsg # "Too many re-connects"

(* the step of worker w in which its read fails *)
ReadFails(w) == wk[w].pc = "read" /\ wk'[w].pc \notin {"read", "sReceived"}

(* C22: in UDP mode the step of a failed read changes no slot and no
   counter of the statistics and leaves the worker in the loop, at the
   WaitN of the next send; Run ends there only without error, when the
   context ends before the tokens arrive; and no UDP slot gets an error
   from a read *)
C22_UdpReadFailIsLostPacket ==
  [][cfg.mode = "udp" =>
       \A w \in Workers :
         /\ ReadFails(w) =>
              /\ cData' = cData /\ s' = s
              /\ wk'[w].id = wk[w].id
              /\ wk'[w].pc \in {"waiting", "ranOk"}
              /\ wk'[w].pc = "ranOk" =>
                   Deadline - now < WaitTicks(PSize) \/ CtxErr
         /\ \A i \in DOMAIN cData : cData'[i].err # "read"]_vars

(* a UDP slot has sent its second packet after the first one was lost *)
C22_Witness ==
  \E w \in Workers :
    /\ cfg.mode = "udp" /\ wk[w].pc = "sSent"
    /\ cData[wk[w].id].sent = 2 /\ cData[wk[w].id].received = 0
    /\ cData[wk[w].id].err = "" /\ s.Received = 0

----------------------------------------------------------------------------
(* The worker loop and the deadline *)

(* worker w claims a slot in this step; worker w calls Connect in this
   step (first attempt of a slot, or a retry after the sleep) *)
Claims(w) == wk[w].pc = "check" /\ wk'[w].pc = "setup"

Dials(w) == wk[w].pc \in {"setup", "sleeping"} /\ wk'[w].pc = "dialing"

(* C23: a TCP worker claims a slot and starts a dial attempt only with 2 s
   or more left before the deadline, a UDP worker claims only with 1 s or
   more left, and the cursor moves in no other step *)
C23_NoNewWorkNearDeadline ==
  [][/\ \A w \in Workers :
          /\ Claims(w) => Deadline - now >= StopMargin(cfg.mode)
          /\ Dials(w) => cfg.mode = "tcp" /\ Deadline - now >= TwoSeconds
     /\ nConn' # nConn => \E w \in Workers : Claims(w)]_vars

(* a TCP worker dials again exactly 2 s before the deadline *)
C23_Witness ==
  \E w \in Workers :
    /\ cfg.mode = "tcp" /\ wk[w].pc = "dialing"
    /\ wk[w].backoff > BackoffStart
    /\ wk[w].wake - DialTimeout = Deadline - TwoSeconds
    /\ now = Deadline - TwoSeconds

(* C24: once the context is done (deadline or signal) the cursor does not
   move, and the step in which the context ends counts no failed
   connection *)
C24_NoClaimAfterCancel ==
  [][/\ CtxErr => nConn' = nConn
     /\ (~CtxErr /\ CtxErr') => s'.FailedConnections = s.FailedConnections]_vars

(* the delay before the k-th retry, in ms *)
BackoffOf(k) == Min(k * 100, BackoffCap)

Connecting(r) == r.pc \in {"dialing", "sleeping"}

(* C25: a worker that sleeps after its k-th failed Connect for a slot
   sleeps min(k * 100 ms, 1 s), and while it dials it holds the delay of
   the next sleep; within a slot the delay grows by 100 ms or stays, from
   100 ms at the first Connect of every slot, and is never above 1 s *)
C25_BackoffLinearCapped ==
  [][\A w \in Workers :
       /\ wk[w].pc = "sleeping" =>
            /\ wk[w].attempt >= 1
            /\ wk[w].backoff = BackoffOf(wk[w].attempt)
       /\ wk[w].pc = "dialing" =>
            wk[w].backoff = BackoffOf(wk[w].attempt + 1)
       /\ (wk[w].pc = "dialing" /\ wk'[w].pc = "sleeping") =>
            wk'[w].wake = now + SleepTicks(BackoffOf(wk'[w].attempt))
       /\ (wk[w].pc = "setup" /\ wk'[w].pc = "dialing") =>
            wk'[w].backoff = BackoffStart /\ wk'[w].attempt = 0
       /\ (Connecting(wk[w]) /\ Connecting(wk'[w])) =>
            /\ wk'[w].id = wk[w].id
            /\ wk'[w].backoff - wk[w].backoff \in {0, 100}
       /\ Connecting(wk[w]) =>
            BackoffStart <= wk[w].backoff /\ wk[w].backoff <= BackoffCap]_vars

(* the worker sleeps 1 s after the 11th failed Connect for its second
   slot *)
C25_Witness ==
  \E w \in Workers :
    /\ wk[w].pc = "sleeping" /\ wk[w].attempt = 11 /\ wk[w].id = 1
    /\ wk[w].backoff = BackoffCap /\ wk[w].wake = now + 2

----------------------------------------------------------------------------
(* The life of a slot *)

(* the phase of a slot, from its fields *)
Phase(cd) ==
  IF cd.ended # Unset THEN "ended"
  ELSE IF cd.sent > 0 THEN "running"
  ELSE IF cd.connected # Unset THEN "connected"
  ELSE IF cd.started # Unset THEN "connecting"
  ELSE "free"

PhaseRank(p) ==
  CASE p = "free" -> 0 [] p = "connecting" -> 1 [] p = "connected" -> 2
    [] p = "running" -> 3 [] p = "ended" -> 4

(* worker w takes a step while it holds slot i (the step of log.Fatalln
   ends the process and leaves the worker where it is) *)
WrittenBy(i, w) == wk[w].id = i /\ (wk'[w] # wk[w] \/ proc' # proc)

(* C26: a slot is changed only in a step of the one worker that holds its
   index, which is its owner from the claim on; its phase never goes back;
   started is set at the claim and kept, connected is set once, not
   before started, and never without a dial that succeeded; the packet
   counters and the error change only in a connected slot that has not
   ended; and a slot that has ended is never changed again *)
C26_SlotLifecycle ==
  [][\A i \in DOMAIN cData :
       LET cd == cData[i]
           nd == cData'[i]
       IN
       /\ nd # cd =>
            /\ \E w \in Workers :
                 /\ WrittenBy(i, w) /\ nd.owner = w
                 /\ \A v \in Workers \ {w} : wk[v].id # i
            /\ cd.owner # 0 => nd.owner = cd.owner
            /\ PhaseRank(Phase(nd)) >= PhaseRank(Phase(cd))
       /\ cd.started # Unset => nd.started = cd.started
       /\ (cd.started = Unset /\ nd.started # Unset) =>
            \E w \in Workers : wk[w].pc = "setup" /\ wk[w].id = i
       /\ cd.connected # Unset => nd.connected = cd.connected
       /\ (cd.connected = Unset /\ nd.connected # Unset) =>
            /\ nd.started # Unset /\ nd.connected >= nd.started
            /\ cfg.mode = "tcp" =>
                 \E w \in Workers : wk[w].pc = "dialing" /\ wk[w].id = i
       /\ (nd.sent # cd.sent \/ nd.received # cd.received
             \/ nd.dropped # cd.dropped \/ nd.err # cd.err) =>
            cd.connected # Unset /\ cd.ended = Unset
       /\ cd.ended # Unset => nd = cd]_vars

(* slot 0 went through every phase and has ended, and its worker is
   sending on its next slot *)
C26_Witness ==
  \E w \in Workers :
    /\ cfg.mode = "tcp" /\ LenCData > 1
    /\ cData[0].owner = w /\ cData[0].ended # Unset
    /\ cData[0].connected # Unset /\ cData[0].sent >= 1
    /\ wk[w].id = 1 /\ wk[w].pc = "read" /\ cData[1].sent >= 1

----------------------------------------------------------------------------
(* The sampler *)

(* the step is the sampler's append of one sample taken now *)
SamplerAppends ==
  /\ smp.pc = "append"
  /\ Len(s'.Samples) = Len(s.Samples) + 1
  /\ IsPrefix(s.Samples, s'.Samples)
  /\ s'.Samples[Len(s'.Samples)].Time = now - s.Started

(* the step is copyStats clearing the series for a report without them *)
CopyStatsClears ==
  /\ cfg.stats = "summary" /\ s'.Samples = <<>>
  /\ mainPc = "printStats" \/ \E w \in Workers : wk[w].pc = "printStats"

TimesIncrease(samples) ==
  \A i \in 1..Len(samples) : \A j \in 1..Len(samples) :
    i < j => samples[i].Time < samples[j].Time

(* the sampler begins a round (the sleep of 1 s) only with more than 1.5 s
   left, and with a duration of 1.5 s or less there is no round *)
RoundsKeepMargin ==
  /\ smp.pc = "sleep" => Deadline - (smp.wake - OneSecond) > SampleMargin
  /\ cfg.timeout <= SampleMargin => smp.pc = "done" /\ s.Samples = <<>>

(* C27 as stated: the series changes only by an append of the sampler,
   the times increase, and the rounds keep the margin *)
C27_SamplerOnlyAppends ==
  [][/\ s'.Samples # s.Samples => SamplerAppends
     /\ TimesIncrease(s'.Samples)
     /\ RoundsKeepMargin']_vars

(* C27 amended: the series changes by an append of the sampler or by
   copyStats setting it to nil for a report with stats=summary *)
C27_SamplerAppendsCopyStatsClears ==
  [][/\ s'.Samples # s.Samples => SamplerAppends \/ CopyStatsClears
     /\ TimesIncrease(s'.Samples)
     /\ RoundsKeepMargin']_vars

(* the sampler has appended its second sample, 2 s after the start, and
   begins no third round *)
C27_Witness ==
  /\ Len(s.Samples) = 2 /\ s.Samples[2].Time = 2 * OneSecond
  /\ smp.pc = "done" /\ Deadline - now = 2 /\ mainPc = "wait"

(* a goroutine is inside printStats: copyStats or reportStats comes next *)
Reporting ==
  /\ cfg.stats # "none"
  /\ \/ mainPc \in {"printStats", "reportStats"}
     \/ \E w \in Workers : wk[w].pc \in {"printStats", "reportStats"}

(* C28: while a report is generated the sampler has returned *)
C28_SamplerStoppedBeforeReport == Reporting => smp.pc = "done"

NonDecreasing(samples, field) ==
  \A i \in 1..Len(samples) : \A j \in 1..Len(samples) :
    i < j => samples[i][field] <= samples[j][field]

(* C29: every sample of the series has Received <= Sent, and Sent,
   Received and Dropped do not decrease along the series *)
C29_SamplesConsistent ==
  /\ \A i \in 1..Len(s.Samples) : s.Samples[i].Received <= s.Samples[i].Sent
  /\ \A f \in {"Sent", "Received", "Dropped"} : NonDecreasing(s.Samples, f)

----------------------------------------------------------------------------
(* The rate limiter on its own: newLimiter and the calls Run makes on it,
   for packet sizes and rates other than those of the runs above.  Tokens
   are bytes, refill is the bytes that arrive per tick. *)

MaxPSize == 3
MaxRefill == 2
MaxPause == 12
MaxSends == 2

(* rate.NewLimiter(rate.Limit(r*1024.0), psize*10): the bucket is full *)
NewBucket(p, f) ==
  [pc |-> "newLimiter", psize |-> p, refill |-> f, tokens |-> Burst * p,
   left |-> 0, waited |-> 0, drops |-> 0, n |-> 0]

InitLim ==
  /\ cfg = AnaConfig
  /\ now = 0
  /\ interrupted = FALSE
  /\ nConn = 0
  /\ cData = [i \in 0..(TableCap(cfg) - 1) |-> ZeroConn]
  /\ wk = [w \in 1..cfg.nconn |-> NewWorker]
  /\ s = NewStats(cfg)
  /\ out = <<>>
  /\ proc = "running"
  /\ fatalMsg = ""
  /\ mainPc = "wait"
  /\ oob = FALSE
  /\ raced = FALSE
  /\ claimed = <<>>
  /\ smp = NoSampler
  /\ dialErrs = 0
  /\ an = NoAnalyzer
  /\ lim \in {NewBucket(p, f) : p \in 1..MaxPSize, f \in 1..MaxRefill}
  /\ mon = NoMonitor

LimiterFrame == <<cfg, now, interrupted, nConn, cData, wk, s, out, proc,
                  fatalMsg, mainPc, oob, raced, claimed, smp, dialErrs, an,
                  mon>>

(* the tokens of bucket l after d more ticks *)
Refilled(l, d) == Min(Burst * l.psize, l.tokens + d * l.refill)

(* a loop that takes nothing *)
NotDrained(tok, psize) == tok

(* for lim.AllowN(time.Now(), psize) {} *)
RECURSIVE DrainLoop(_, _)
DrainLoop(tok, psize) ==
  IF tok >= psize THEN DrainLoop(tok - psize, psize) ELSE tok

(* newLimiter: WaitN(ctx, rand.Intn(psize)) is served from the full bucket
   at once, then the drain loop *)
LimNewLimiter ==
  /\ lim.pc = "newLimiter"
  /\ \E r \in 0..(lim.psize - 1) :
       LET tok == DrainLoop(lim.tokens - r, lim.psize)
       IN lim' = [lim EXCEPT !.pc = "WaitN", !.tokens = tok, !.left = tok]
  /\ UNCHANGED LimiterFrame

(* lim.WaitN(ctx, psize): d ticks after the drain loop of the previous
   packet (its read), directly after newLimiter for the first packet; the
   call returns when the missing tokens have arrived *)
LimWaitN ==
  /\ lim.pc = "WaitN" /\ lim.n < MaxSends
  /\ \E d \in IF lim.n = 0 THEN {0} ELSE 0..MaxPause :
       LET tok == Refilled(lim, d)
           delay == IF tok >= lim.psize THEN 0
                    ELSE (lim.psize - tok + lim.refill - 1) \div lim.refill
       IN lim' = [lim EXCEPT !.pc = "Write", !.waited = delay,
                             !.tokens = tok - lim.psize + delay * lim.refill]
  /\ UNCHANGED LimiterFrame

(* conn.Write returns after d ticks, then
   for lim.AllowN(time.Now(), psize) { nPacketsDropped++ } *)
LimSend ==
  /\ lim.pc = "Write"
  /\ \E d \in 0..MaxPause :
       LET tok == Refilled(lim, d)
       IN lim' = [lim EXCEPT !.pc = "WaitN", !.n = @ + 1,
                             !.drops = tok \div lim.psize,
                             !.tokens = DrainLoop(tok, lim.psize)]
  /\ UNCHANGED LimiterFrame

NextLim == LimNewLimiter \/ LimWaitN \/ LimSend

SpecLim == InitLim /\ [][NextLim]_vars

(* C30: the bucket never holds more than 10 packets; what newLimiter
   leaves in it is less than one packet, so the first WaitN for a packet
   has to wait for tokens; and the drain loop after a send counts at most
   10 dropped packets *)
C30_LimiterDrainedAtCreation ==
  /\ lim.tokens <= Burst * lim.psize
  /\ lim.pc # "newLimiter" => 0 <= lim.left /\ lim.left < lim.psize
  /\ (lim.pc = "Write" /\ lim.n = 0) => lim.waited > 0
  /\ lim.drops <= Burst

(* a limiter that kept part of a packet at creation has counted 10
   dropped packets after one send *)
C30_Witness ==
  /\ lim.psize > 1 /\ lim.pc = "WaitN" /\ lim.n >= 1
  /\ lim.left > 0 /\ lim.drops = Burst

----------------------------------------------------------------------------
(* The end of a slot *)

(* Run returns nil to worker w in this step; worker w handles that
   return in this step *)
RunReturnsNil(w) ==
  /\ wk[w].pc \in {"newLimiter", "waiting", "sReceived", "read"}
  /\ wk'[w].pc = "ranOk"

HandlesNil(w) == wk[w].pc = "ranOk" /\ wk'[w].pc # "ranOk"

(* C31: Run returns nil only from newLimiter or WaitN, with the context
   done or the deadline closer than the wait, and sends nothing in that
   step; the worker then leaves the slot without error, ended at start +
   configured duration, counts neither a failed connection nor a failed
   connect, and returns *)
C31_CancelInRunIsBenign ==
  [][\A w \in Workers :
       LET i == wk[w].id IN
       /\ wk'[w].pc = "ranOk" /\ wk[w].pc # "ranOk" => RunReturnsNil(w)
       /\ RunReturnsNil(w) =>
            /\ CtxErr \/ Deadline - now < WaitTicks(PSize)
            /\ cData'[i].sent = cData[i].sent /\ s'.Sent = s.Sent
            /\ cData'[i].err = "" /\ cData'[i].ended = Unset
            /\ s'.FailedConnections = s.FailedConnections
            /\ s'.FailedConnects = s.FailedConnects
       /\ HandlesNil(w) =>
            /\ cData'[i].err = ""
            /\ cData'[i].ended = s.Started + cfg.timeout
            /\ cData'[i].sent = cData[i].sent
            /\ s'.FailedConnections = s.FailedConnections
            /\ s'.FailedConnects = s.FailedConnects
            /\ wk'[w].pc = "done"]_vars

(* the reports written by the main goroutine *)
MainReports == {k \in 1..Len(out) : out[k].by = 0}

(* analyzeConnections: if c.Ended == time.Duration(0) { log.Fatal } *)
NeverEnded(c) == c.Ended = 0

(* C32: once the workers are joined every index the cursor has issued is
   a slot of the table with ended set, after the start; and no record of
   a report written by the main goroutine has the Ended offset 0 that the
   analyzer takes for "never ended", or the offset of an unset time *)
C32_EverySlotEndedAtJoin ==
  /\ Joined =>
       \A i \in 0..(nConn - 1) :
         /\ i \in DOMAIN cData
         /\ cData[i].ended # Unset /\ cData[i].ended > s.Started
  /\ \A k \in MainReports :
       /\ cfg.stats = "all" => Len(out[k].stats.ConnStats) = nConn
       /\ \A j \in 1..Len(out[k].stats.ConnStats) :
            LET c == out[k].stats.ConnStats[j]
            IN ~NeverEnded(c) /\ c.Ended # MinDuration

(* the report of a finished run has the records of a connection that
   failed and of a slot abandoned while connecting *)
C32_Witness ==
  /\ mainPc = "done" /\ cfg.stats = "all" /\ Len(out) = 1
  /\ Len(out[1].stats.ConnStats) = 2
  /\ \E j \in 1..2 : out[1].stats.ConnStats[j].Err # ""
  /\ \E j \in 1..2 :
       /\ out[1].stats.ConnStats[j].Err = ""
       /\ out[1].stats.ConnStats[j].Connect = 0
       /\ out[1].stats.ConnStats[j].Ended = cfg.timeout

(* the slots that are claimed and have not ended *)
LiveSlots ==
  {i \in DOMAIN cData : cData[i].started # Unset /\ cData[i].ended = Unset}

(* C33: at most nconn slots are live, no worker owns two live slots, and
   a worker claims only when every slot it owns has ended *)
C33_OneLiveSlotPerWorker ==
  [][/\ Cardinality(LiveSlots') <= cfg.nconn
     /\ \A w \in Workers :
          /\ Cardinality(LiveSlots' \cap ClaimsOf(w)') <= 1
          /\ Claims(w) => LiveSlots \cap ClaimsOf(w) = {}]_vars

(* the one worker of the run has ended slot 0 and reads on slot 1 *)
C33_Witness ==
  /\ cfg.nconn = 1 /\ LenCData = 2 /\ wk[1].pc = "read" /\ wk[1].id = 1
  /\ cData[0].ended # Unset /\ LiveSlots = {1}

(* C34: in TCP mode the cursor is at most nconn + FailedConnections (at
   most nconn without reconnect), a claim by a worker that owns a slot
   follows a failed connection of that slot, and the steps of the connect
   loop of a slot leave the cursor where it is *)
C34_BudgetSpentByFailedConnections ==
  [][cfg.mode = "tcp" =>
       /\ nConn' <= cfg.nconn + s'.FailedConnections
       /\ ~cfg.reconnect => nConn' <= cfg.nconn
       /\ \A w \in Workers :
            /\ Claims(w) =>
                 Cardinality(ClaimsOf(w)) <= s.FailedConnections
                   /\ \A i \in ClaimsOf(w) : cData[i].err # ""
            /\ Connecting(wk[w]) /\ wk'[w] # wk[w] => nConn' = nConn]_vars

(* the second claim of the run followed a failed connection, and a dial
   of the second slot has failed without moving the cursor *)
C34_Witness ==
  /\ cfg.mode = "tcp" /\ cfg.nconn = 1 /\ nConn = 2
  /\ s.FailedConnections = 1 /\ dialErrs >= 1
  /\ wk[1].pc = "sleeping" /\ wk[1].id = 1

----------------------------------------------------------------------------
(* The readers of the table *)

(* C35: neither copyStats nor the monitor indexes the table out of range,
   the monitor looks at no more slots than the table has and no more than
   the cursor has issued, and a step of the monitor changes nothing but
   the monitor *)
C35_ReadersStayInTable ==
  [][/\ oob' = FALSE /\ proc' # "panic"
     /\ mon'.pc = "scan" =>
          mon'.monConns <= LenCData /\ mon'.monConns <= nConn
     /\ mon' # mon =>
          UNCHANGED <<cfg, nConn, cData, wk, s, out, proc, fatalMsg, mainPc,
                      now, interrupted, claimed>>]_vars

(* the monitor looks at the table, and a worker has written its report,
   with the cursor past the capacity *)
C35_Witness ==
  /\ nConn > LenCData /\ mon.pc = "scan" /\ mon.monConns = LenCData
  /\ cfg.stats = "all" /\ Len(out) = 1 /\ out[1].by # 0
  /\ Len(out[1].stats.ConnStats) = nConn

====
